---- MODULE Spec2Model ----
(***************************************************************************)
(* Model of tkc/hypothesis-sandbox:                                        *)
(*   - src/src/src/domain/model.py : the pandera DataFrameSchema `schema`  *)
(*   - src/src/main.py             : convert_date_format and main()        *)
(*   - src/tests/test_valiation.py : StackStateMachine                     *)
(*                                                                         *)
(* Three specifications share the module:                                  *)
(*   Spec      : a caller builds a DataFrame, calls schema.validate and    *)
(*               prints the result (main, generalised over the data)       *)
(*   DateSpec  : convert_date_format applied to a drawn date string        *)
(*   StackSpec : the rule-based state machine over a Python list           *)
(***************************************************************************)
EXTENDS Integers, Sequences, FiniteSets, TLC

VARIABLES
    \* ----- schema validation driver (main.py / model.py)
    pc,            \* position in main(): start, constructed, validated, exit0, fatal
    data,          \* the dict of column name -> list of Python values
    df,            \* pd.DataFrame(data): column name -> [dtype, values]
    validated_df,  \* <<>> while unassigned, <<table>> once schema.validate returned
    raised,        \* "none" or the exception that left the call
    stdout,        \* what main() printed
    \* ----- convert_date_format (main.py)
    dpc,           \* "call" before the call, "done" after it
    date,          \* the (year, month, day) numbers the text was written from
    written_as,    \* the pattern the text was written in
    padded,        \* whether month and day were written zero-padded
    junk,          \* whether a trailing character was appended to the text
    date_str, from_format, to_format,   \* the three arguments
    result,        \* [ok, value]: the returned string, or ValueError
    \* ----- StackStateMachine (test_valiation.py)
    stack,         \* self.stack
    popped,        \* <<>> or <<value of the local `popped` of the last pop>>
    pushed,        \* <<>> or <<item of the last push>>
    nPush, nPop,   \* number of push / pop rules executed so far
    assertion_error \* TRUE once the assert in pop() has raised

dvars == <<pc, data, df, validated_df, raised, stdout>>
cvars == <<dpc, date, written_as, padded, junk, date_str, from_format, to_format, result>>
svars == <<stack, popped, pushed, nPush, nPop, assertion_error>>
vars == <<dvars, cvars, svars>>

(***************************************************************************)
(* Bounds of the model.                                                    *)
(***************************************************************************)
MaxRows == 3        \* rows of a drawn table
IntWidth == 5       \* width of the fixed-width integer dtype, scaled from 64
MaxOps == 5         \* rules executed by one run of the state machine
ItemBound == 1      \* pushed items are drawn from -ItemBound..ItemBound
MaxMonth == 13      \* month numbers written into a text: 0..MaxMonth
MaxDay == 32        \* day numbers written into a text: 0..MaxDay

\* The largest value of the signed fixed-width integer dtype (2^63 - 1 in the
\* program; the model checker's integers are narrower, so the width is scaled:
\* every use below is a comparison against this value).
INT64_MAX == 2 ^ (IntWidth - 1) - 1

(***************************************************************************)
(* Python values held in table cells.  One record shape for all kinds:     *)
(*   str   : s is the text as a sequence of characters                     *)
(*   int   : n is the integer                                              *)
(*   float : n is the value in halves (3 is 1.5, 2 is 1.0)                 *)
(*   none  : Python None;  nan : the float NaN pandas stores for it        *)
(***************************************************************************)
Str(s) == [k |-> "str", s |-> s, n |-> 0]
Int_(n) == [k |-> "int", s |-> <<>>, n |-> n]
Float(h) == [k |-> "float", s |-> <<>>, n |-> h]
None == [k |-> "none", s |-> <<>>, n |-> 0]
NaN == [k |-> "nan", s |-> <<>>, n |-> 0]

NameVals == {Str(<<>>), Str(<<"B", "o", "b">>), None, Int_(1)}
AgeVals == {Int_(-5), Int_(0), Int_(1), Int_(INT64_MAX), Int_(INT64_MAX + 1),
            None, Float(3)}

Columns == {"name", "age"}

NRows(t) == IF DOMAIN t = {} THEN 0 ELSE Len(t[CHOOSE c \in DOMAIN t : TRUE].values)
Range(s) == {s[i] : i \in 1..Len(s)}

(***************************************************************************)
(* pd.DataFrame(data): the dtype pandas infers for a list of values, and   *)
(* the values as the column stores them.                                   *)
(***************************************************************************)
InferDtype(vals) ==
    LET kinds == {v.k : v \in Range(vals)}
        ints == {v.n : v \in {w \in Range(vals) : w.k = "int"}}
    IN  IF kinds = {} \/ kinds = {"none"} THEN "object"
        ELSE IF "str" \in kinds THEN "object"
        ELSE IF kinds = {"int"} THEN
            IF \A x \in ints : -(INT64_MAX + 1) <= x /\ x <= INT64_MAX THEN "int64"
            ELSE IF \A x \in ints : x >= 0 THEN "uint64"
            ELSE "object"
        ELSE "float64"

Stored(dtype, v) ==
    IF dtype = "float64"
    THEN (IF v.k = "none" THEN NaN ELSE IF v.k = "int" THEN Float(2 * v.n) ELSE v)
    ELSE v

Series(vals) ==
    LET dt == InferDtype(vals)
    IN  [dtype |-> dt, values |-> [i \in 1..Len(vals) |-> Stored(dt, vals[i])]]

DataFrame(d) == [c \in DOMAIN d |-> Series(d[c])]

(***************************************************************************)
(* The schema of model.py: two columns, each with a dtype, a check and     *)
(* nullable=False.  schema.validate is pandera's: column presence, then    *)
(* per column the nullable check, the dtype check and the Check, raising   *)
(* SchemaError at the first failure (lazy=False, coerce=False).            *)
(***************************************************************************)
IsNull(v) == v.k \in {"none", "nan"}

\* Column(str, ...): a numpy object column whose non-null elements are str.
name_dtype(series) ==
    /\ series.dtype = "object"
    /\ \A v \in Range(series.values) : v.k = "str" \/ IsNull(v)

\* Variant: any integer dtype is taken for int.
age_dtype_any_int(series) == series.dtype \in {"int64", "uint64"}

\* Column(int, ...): the 64-bit signed integer dtype, nothing coerced.
age_dtype(series) == series.dtype = "int64"

\* Variant: nullable=True.
nullable_true(col) == TRUE

\* nullable=False on both columns.
nullable(col) == FALSE

\* pa.Check(lambda s: len(s) > 0, element_wise=True)
name_check(s) == Len(s) > 0

\* Variant: the comparison off by one.
age_check_gt1(x) == x > 1

\* pa.Check(lambda x: x > 0)
age_check(x) == x > 0

\* The output of a column's Check: name's lambda is mapped over the elements,
\* age's lambda receives the whole Series and `x > 0` compares it element by
\* element; either way one boolean per row.  Null elements are left out of a
\* Check (ignore_na, the default).
check_output(col, series) ==
    [i \in 1..Len(series.values) |->
        IF IsNull(series.values[i]) THEN TRUE
        ELSE IF col = "name" THEN name_check(series.values[i].s)
        ELSE age_check(series.values[i].n)]

\* Variant: a column-wise output reduced with any() in place of all().
check_passed_any(out) == \E i \in 1..Len(out) : out[i]

\* pandera accepts a boolean Series output only when every element is True.
check_passed(out) == \A i \in 1..Len(out) : out[i]

dtype_ok(col, series) == IF col = "name" THEN name_dtype(series) ELSE age_dtype(series)

validate_column(col, series) ==
    IF ~nullable(col) /\ \E v \in Range(series.values) : IsNull(v) THEN "not_nullable"
    ELSE IF ~dtype_ok(col, series) THEN "wrong_dtype"
    ELSE IF ~check_passed(check_output(col, series)) THEN "check_failed"
    ELSE "ok"

\* Every column the schema declares must be in the DataFrame.
columns_present(t) == \A c \in Columns : c \in DOMAIN t

\* Variant: columns declared required=False, validated only when present.
validate_present_only(t) ==
    IF "name" \in DOMAIN t /\ validate_column("name", t["name"]) # "ok"
    THEN validate_column("name", t["name"])
    ELSE IF "age" \in DOMAIN t THEN validate_column("age", t["age"])
    ELSE "ok"

\* schema.validate(df): "ok" (the DataFrame is returned as it is) or the
\* reason of the SchemaError.
validate(t) ==
    IF ~columns_present(t) THEN "column_not_in_dataframe"
    ELSE IF validate_column("name", t["name"]) # "ok" THEN validate_column("name", t["name"])
    ELSE validate_column("age", t["age"])

(***************************************************************************)
(* main(), with the sample data generalised to any dict of equal-length    *)
(* columns (the tests call schema.validate on such tables).                *)
(***************************************************************************)
DriverIdle ==
    /\ pc = "start" /\ data = <<>> /\ df = <<>> /\ validated_df = <<>>
    /\ raised = "none" /\ stdout = <<>>

\* data = {...}; df = pd.DataFrame(data)
Construct ==
    /\ pc = "start"
    /\ \E cols \in SUBSET Columns, n \in 0..MaxRows :
        \E names \in (IF "name" \in cols THEN [1..n -> NameVals] ELSE {<<>>}),
           ages \in (IF "age" \in cols THEN [1..n -> AgeVals] ELSE {<<>>}) :
            /\ data' = [c \in cols |-> IF c = "name" THEN names ELSE ages]
            /\ df' = DataFrame(data')
    /\ pc' = "constructed"
    /\ UNCHANGED <<validated_df, raised, stdout>>

\* Variant: the call wrapped in try/except, the input used on failure.
CallValidateCatch ==
    /\ pc = "constructed"
    /\ validated_df' = <<df>>
    /\ pc' = "validated"
    /\ UNCHANGED <<data, df, stdout, raised>>

\* validated_df = schema.validate(df); a SchemaError is not caught, so it
\* ends the process.
CallValidate ==
    /\ pc = "constructed"
    /\ IF validate(df) = "ok"
       THEN /\ validated_df' = <<df>>
            /\ pc' = "validated"
            /\ raised' = raised
       ELSE /\ raised' = "SchemaError"
            /\ pc' = "fatal"
            /\ validated_df' = validated_df
    /\ UNCHANGED <<data, df, stdout>>

\* print("Validated DataFrame:"); print(validated_df); then main returns.
PrintResult ==
    /\ pc = "validated"
    /\ stdout' = <<"Validated DataFrame:", validated_df[1]>>
    /\ pc' = "exit0"
    /\ UNCHANGED <<data, df, validated_df, raised>>

(***************************************************************************)
(* StackStateMachine: the rules push and pop over the Python list          *)
(* self.stack.  A failed assert raises AssertionError, which ends the run. *)
(***************************************************************************)
Items == (-ItemBound)..ItemBound

StackIdle ==
    /\ stack = <<>> /\ popped = <<>> /\ pushed = <<>>
    /\ nPush = 0 /\ nPop = 0 /\ assertion_error = FALSE

\* list.append(item)
list_append(s, item) == Append(s, item)

\* Variant: pop(0), the first element.
list_pop_first(s) == [value |-> s[1], rest |-> SubSeq(s, 2, Len(s))]

\* list.pop(): the last element, and the list without it.
list_pop(s) == [value |-> s[Len(s)], rest |-> SubSeq(s, 1, Len(s) - 1)]

\* Truth value of a Python int.
truthy(x) == x # 0

\* The expression asserted in pop():
\*   popped == self.stack[-1] if self.stack else popped
\* evaluated on the list as it is after the pop.
pop_assertion(p, s) == IF Len(s) > 0 THEN p = s[Len(s)] ELSE truthy(p)

\* @rule(item=st.integers()) def push(self, item)
push ==
    /\ ~assertion_error
    /\ nPush + nPop < MaxOps
    /\ \E item \in Items :
        /\ stack' = list_append(stack, item)
        /\ pushed' = <<item>>
    /\ nPush' = nPush + 1
    /\ UNCHANGED <<popped, nPop, assertion_error>>

\* @precondition(lambda self: len(self.stack) > 0) @rule() def pop(self)
pop ==
    /\ ~assertion_error
    /\ nPush + nPop < MaxOps
    /\ Len(stack) > 0
    /\ stack' = list_pop(stack).rest
    /\ popped' = <<list_pop(stack).value>>
    /\ assertion_error' = ~pop_assertion(list_pop(stack).value, stack')
    /\ nPop' = nPop + 1
    /\ UNCHANGED <<pushed, nPush>>

(***************************************************************************)
(* convert_date_format.  Text is a sequence of one-character strings; a    *)
(* pattern is the sequence of its directives and literal characters.       *)
(***************************************************************************)
ISO == <<"%Y", "-", "%m", "-", "%d">>      \* "%Y-%m-%d"
DMY == <<"%d", "/", "%m", "/", "%Y">>      \* "%d/%m/%Y"
Patterns == {ISO, DMY}
Years == {1900, 2000, 2023, 2024, 2100}

DigitChars == <<"0", "1", "2", "3", "4", "5", "6", "7", "8", "9">>
IsDigit(c) == \E i \in 1..10 : DigitChars[i] = c
DigitVal(c) == (CHOOSE i \in 1..10 : DigitChars[i] = c) - 1

RECURSIVE Number(_)
Number(cs) ==
    IF cs = <<>> THEN 0
    ELSE 10 * Number(SubSeq(cs, 1, Len(cs) - 1)) + DigitVal(cs[Len(cs)])

\* n written in exactly w digits, zero-padded on the left.
RECURSIVE Padded(_, _)
Padded(n, w) ==
    IF w = 0 THEN <<>> ELSE Append(Padded(n \div 10, w - 1), DigitChars[(n % 10) + 1])

\* n written without padding.
RECURSIVE Plain(_)
Plain(n) == IF n < 10 THEN <<DigitChars[n + 1]>>
            ELSE Append(Plain(n \div 10), DigitChars[(n % 10) + 1])

\* datetime's calendar.
is_leap(y) == y % 4 = 0 /\ (y % 100 # 0 \/ y % 400 = 0)
days_in_month(y, m) ==
    IF m = 2 THEN (IF is_leap(y) THEN 29 ELSE 28)
    ELSE IF m \in {4, 6, 9, 11} THEN 30 ELSE 31
\* Variant: every month taken to have 31 days.
date_exists_31(y, m, d) == m \in 1..12 /\ d \in 1..31
date_exists(y, m, d) == m \in 1..12 /\ d \in 1..days_in_month(y, m)

\* strftime: %Y is the year in four digits, %m and %d two digits each.
RECURSIVE strftime(_, _)
strftime(dt, fmt) ==
    IF fmt = <<>> THEN <<>>
    ELSE LET tok == Head(fmt)
             piece == IF tok = "%Y" THEN Padded(dt.year, 4)
                      ELSE IF tok = "%m" THEN Padded(dt.month, 2)
                      ELSE IF tok = "%d" THEN Padded(dt.day, 2)
                      ELSE <<tok>>
         IN  piece \o strftime(dt, Tail(fmt))

\* The regular expression _strptime compiles for a directive, as its
\* alternatives in the order the regex tries them, each by its length:
\*   %Y  \d\d\d\d        %m  1[0-2]|0[1-9]|[1-9]
\*   %d  3[0-1]|[1-2]\d|0[1-9]|[1-9]
alt_lengths(tok) == IF tok = "%Y" THEN <<4>> ELSE <<2, 1>>

alt_ok(tok, piece) ==
    /\ \A i \in 1..Len(piece) : IsDigit(piece[i])
    /\ IF tok = "%Y" THEN Len(piece) = 4
       ELSE IF tok = "%m" THEN
            IF Len(piece) = 2
            THEN \/ piece[1] = "1" /\ DigitVal(piece[2]) \in 0..2
                 \/ piece[1] = "0" /\ DigitVal(piece[2]) \in 1..9
            ELSE DigitVal(piece[1]) \in 1..9
       ELSE IF Len(piece) = 2
            THEN \/ piece[1] = "3" /\ DigitVal(piece[2]) \in 0..1
                 \/ DigitVal(piece[1]) \in 1..2
                 \/ piece[1] = "0" /\ DigitVal(piece[2]) \in 1..9
            ELSE DigitVal(piece[1]) \in 1..9

NoMatch == [ok |-> FALSE, end |-> 0, year |-> 0, month |-> 0, day |-> 0]

set_field(acc, tok, v) ==
    IF tok = "%Y" THEN [acc EXCEPT !.year = v]
    ELSE IF tok = "%m" THEN [acc EXCEPT !.month = v]
    ELSE [acc EXCEPT !.day = v]

\* format_regex.match(data_string): a backtracking match of the pattern
\* against a prefix of the text, from position pos on.
RECURSIVE re_match(_, _, _, _)
RECURSIVE re_alts(_, _, _, _, _)
re_match(text, pos, fmt, acc) ==
    IF fmt = <<>> THEN [acc EXCEPT !.ok = TRUE, !.end = pos - 1]
    ELSE IF Head(fmt) \in {"%Y", "%m", "%d"}
         THEN re_alts(text, pos, fmt, acc, alt_lengths(Head(fmt)))
    ELSE IF pos <= Len(text) /\ text[pos] = Head(fmt)
         THEN re_match(text, pos + 1, Tail(fmt), acc)
    ELSE NoMatch

re_alts(text, pos, fmt, acc, lens) ==
    IF lens = <<>> THEN NoMatch
    ELSE LET w == Head(lens)
             piece == SubSeq(text, pos, pos + w - 1)
             r == IF pos + w - 1 <= Len(text) /\ alt_ok(Head(fmt), piece)
                  THEN re_match(text, pos + w, Tail(fmt),
                                set_field(acc, Head(fmt), Number(piece)))
                  ELSE NoMatch
         IN  IF r.ok THEN r ELSE re_alts(text, pos, fmt, acc, Tail(lens))

ValueError == [ok |-> FALSE, year |-> 0, month |-> 0, day |-> 0]

\* datetime.strptime(date_str, format): ValueError when the text does not
\* match the pattern, when unconverted data remains after the match, or when
\* the matched numbers are no date of the calendar.
strptime(text, fmt) ==
    LET found == re_match(text, 1, fmt, NoMatch)
    IN  IF ~found.ok THEN ValueError
        ELSE IF found.end # Len(text) THEN ValueError
        ELSE IF ~date_exists(found.year, found.month, found.day) THEN ValueError
        ELSE [ok |-> TRUE, year |-> found.year, month |-> found.month, day |-> found.day]

\* Variant: the result rendered in the source pattern.
convert_date_format_same(text, from, to) ==
    LET dt == strptime(text, from)
    IN  IF dt.ok THEN [ok |-> TRUE, value |-> strftime(dt, from)]
        ELSE [ok |-> FALSE, value |-> <<>>]

\* dt = datetime.strptime(date_str, from_format); return dt.strftime(to_format)
convert_date_format(text, from, to) ==
    LET dt == strptime(text, from)
    IN  IF dt.ok THEN [ok |-> TRUE, value |-> strftime(dt, to)]
        ELSE [ok |-> FALSE, value |-> <<>>]

\* The text of the numbers of dt in a pattern: strftime's when padded, with
\* month and day in their shortest form otherwise.
RECURSIVE unpadded(_, _)
unpadded(dt, fmt) ==
    IF fmt = <<>> THEN <<>>
    ELSE LET tok == Head(fmt)
             piece == IF tok = "%Y" THEN Padded(dt.year, 4)
                      ELSE IF tok = "%m" THEN Plain(dt.month)
                      ELSE IF tok = "%d" THEN Plain(dt.day)
                      ELSE <<tok>>
         IN  piece \o unpadded(dt, Tail(fmt))

NoResult == [ok |-> FALSE, value |-> <<"not called">>]

DateIdle ==
    /\ dpc = "idle" /\ date = [year |-> 0, month |-> 0, day |-> 0]
    /\ written_as = <<>> /\ padded = TRUE /\ junk = FALSE
    /\ date_str = <<>> /\ from_format = <<>> /\ to_format = <<>>
    /\ result = NoResult

\* The arguments of one call.
DateInit ==
    /\ dpc = "call"
    /\ date \in [year : Years, month : 0..MaxMonth, day : 0..MaxDay]
    /\ written_as \in Patterns
    /\ padded \in BOOLEAN
    /\ junk \in BOOLEAN
    /\ date_str = (IF padded THEN strftime(date, written_as)
                             ELSE unpadded(date, written_as))
                  \o (IF junk THEN <<"Z">> ELSE <<>>)
    /\ from_format \in Patterns
    /\ to_format \in Patterns
    /\ result = NoResult

Convert ==
    /\ dpc = "call"
    /\ result' = convert_date_format(date_str, from_format, to_format)
    /\ dpc' = "done"
    /\ UNCHANGED <<date, written_as, padded, junk, date_str, from_format, to_format>>

(***************************************************************************)
(* The specifications.                                                     *)
(***************************************************************************)
Init == DriverIdle /\ DateIdle /\ StackIdle
Next ==
    \/ Construct /\ UNCHANGED <<cvars, svars>>
    \/ CallValidate /\ UNCHANGED <<cvars, svars>>
    \/ PrintResult /\ UNCHANGED <<cvars, svars>>
Spec == Init /\ [][Next]_vars

DateSpecInit == DriverIdle /\ DateInit /\ StackIdle
DateNext == Convert /\ UNCHANGED <<dvars, svars>>
DateSpec == DateSpecInit /\ [][DateNext]_vars

StackNext ==
    \/ push /\ UNCHANGED <<dvars, cvars>>
    \/ pop /\ UNCHANGED <<dvars, cvars>>
StackSpec == Init /\ [][StackNext]_vars

(***************************************************************************)
(* Properties of schema.validate and main (specification Spec).            *)
(***************************************************************************)
Called == pc \in {"validated", "exit0", "fatal"}
HasBoth == DOMAIN data = Columns
NonEmptyText(v) == v.k = "str" /\ v.s # <<>>
PositiveInt(v) == v.k = "int" /\ v.n >= 1
Bob == Str(<<"B", "o", "b">>)

\* C1: a table of at least one row whose names are all non-empty strings and
\* whose ages are all integers in 1..INT64_MAX is accepted, and the returned
\* table has the same rows and the two columns name and age.
C1_ValidTableAccepted ==
    (/\ Called
     /\ HasBoth
     /\ Len(data["name"]) >= 1
     /\ \A v \in Range(data["name"]) : NonEmptyText(v)
     /\ \A v \in Range(data["age"]) : PositiveInt(v) /\ v.n <= INT64_MAX)
    => /\ raised = "none"
       /\ validated_df # <<>>
       /\ DOMAIN validated_df[1] = Columns
       /\ \A c \in Columns : Len(validated_df[1][c].values) = Len(data[c])

C1_Witness ==
    /\ pc = "validated"
    /\ HasBoth
    /\ data["name"] = <<Bob, Bob, Bob>>
    /\ data["age"] = <<Int_(1), Int_(INT64_MAX), Int_(1)>>
    /\ NRows(validated_df[1]) = 3

\* C2: with both columns present, one empty name or one age <= 0 makes
\* schema.validate raise SchemaError, wherever the row is and whatever the
\* other rows hold.
C2_BadValueRejected ==
    (/\ Called
     /\ HasBoth
     /\ \/ \E v \in Range(data["name"]) : v.k = "str" /\ v.s = <<>>
        \/ \E v \in Range(data["age"]) : v.k = "int" /\ v.n <= 0)
    => raised = "SchemaError" /\ pc = "fatal" /\ validated_df = <<>>

C2_Witness ==
    /\ pc = "fatal"
    /\ HasBoth
    /\ data["name"] = <<Bob, Bob, Bob>>
    /\ data["age"] = <<Int_(1), Int_(0), Int_(1)>>
    /\ raised = "SchemaError"

\* C3: a table lacking the name or the age column is rejected with SchemaError
\* whatever the columns that are present hold.
C3_MissingColumnRejected ==
    (Called /\ ~HasBoth) => raised = "SchemaError" /\ pc = "fatal" /\ validated_df = <<>>

C3_Witness ==
    /\ pc = "fatal"
    /\ DOMAIN data = {"name"}
    /\ data["name"] = <<Bob, Bob>>
    /\ raised = "SchemaError"

C7_ReturnedDtypesAndValues ==
    validated_df # <<>> =>
        LET out == validated_df[1]
        IN  /\ out["age"].dtype = "int64"
            /\ out["name"].dtype = "object"
            /\ \A c \in Columns : \A i \in 1..Len(data[c]) :
                   out[c].values[i] = data[c][i]
            /\ \A v \in Range(out["name"].values) : NonEmptyText(v)
            /\ \A v \in Range(out["age"].values) : PositiveInt(v)

C7_Witness ==
    /\ validated_df # <<>>
    /\ validated_df[1]["age"].values = <<Int_(INT64_MAX), Int_(1)>>
    /\ validated_df[1]["name"].values = <<Bob, Bob>>

\* C8: a SchemaError leaves no validated table and nothing printed and ends
\* main in the fatal state; main reaches the printed, exit-0 state only with a
\* table in which every name is a non-empty string and every age a positive
\* integer, and then it printed that table.  Nothing runs after the failure.
C8_FailureIsFatal ==
    /\ raised = "SchemaError" => validated_df = <<>> /\ stdout = <<>> /\ pc = "fatal"
    /\ pc = "fatal" => raised = "SchemaError"
    /\ pc \in {"validated", "exit0"} =>
          /\ raised = "none"
          /\ HasBoth
          /\ \A v \in Range(data["name"]) : NonEmptyText(v)
          /\ \A v \in Range(data["age"]) : PositiveInt(v)
          /\ validated_df = <<df>>
    /\ stdout # <<>> => pc = "exit0" /\ stdout = <<"Validated DataFrame:", df>>
    /\ pc = "fatal" => ~ENABLED Next

C8_Witness ==
    /\ pc = "fatal"
    /\ raised = "SchemaError"
    /\ HasBoth
    /\ data["name"] = <<Bob, Str(<<>>)>>
    /\ data["age"] = <<Int_(1), Int_(1)>>
    /\ validated_df = <<>>
    /\ stdout = <<>>

(***************************************************************************)
(* Properties of convert_date_format (specification DateSpec).             *)
(***************************************************************************)
\* The calendar, stated apart from the model of datetime.
MonthLengths == <<31, 28, 31, 30, 31, 30, 31, 31, 30, 31, 30, 31>>
LeapYears == {2000, 2024}
OnCalendar(dt) ==
    /\ dt.month \in 1..12
    /\ dt.day >= 1
    /\ dt.day <= MonthLengths[dt.month]
                 + (IF dt.month = 2 /\ dt.year \in LeapYears THEN 1 ELSE 0)

\* C5: for a date d of the calendar and patterns P1, P2 among "%Y-%m-%d" and
\* "%d/%m/%Y", convert_date_format(render(d, P1), P1, P2) = render(d, P2).
C5_ConvertCommutesWithRender ==
    (/\ dpc = "done"
     /\ OnCalendar(date)
     /\ date_str = strftime(date, from_format))
    => result.ok /\ result.value = strftime(date, to_format)

C5_Witness ==
    /\ dpc = "done"
    /\ date = [year |-> 2024, month |-> 2, day |-> 29]
    /\ date_str = <<"2", "0", "2", "4", "-", "0", "2", "-", "2", "9">>
    /\ from_format = ISO /\ to_format = DMY
    /\ result = [ok |-> TRUE,
                 value |-> <<"2", "9", "/", "0", "2", "/", "2", "0", "2", "4">>]

\* C6: convert_date_format raises ValueError and returns no string when the
\* text is written in another pattern than from_format or carries trailing
\* characters, or when its numbers are no date of the calendar (month 0 or
\* above 12, day 0 or above the length of the month in that year).
C6_InvalidTextRaises ==
    (/\ dpc = "done"
     /\ \/ written_as # from_format
        \/ junk
        \/ ~OnCalendar(date))
    => ~result.ok /\ result.value = <<>>

C6_Witness ==
    /\ dpc = "done"
    /\ date_str = <<"2", "0", "2", "3", "-", "0", "2", "-", "3", "0">>
    /\ from_format = ISO /\ to_format = DMY
    /\ ~result.ok

(***************************************************************************)
(* Properties of StackStateMachine (specification StackSpec).              *)
(***************************************************************************)
\* C9: the length of the stack is the number of pushes minus the number of
\* pops and never negative; a push puts its item on top and leaves the rest
\* as it was; a pop yields the item on top and leaves the rest in order.
C9_StackIsLifo ==
    /\ [](Len(stack) = nPush - nPop /\ Len(stack) >= 0)
    /\ [][/\ nPush' = nPush + 1 =>
                /\ stack'[Len(stack')] = pushed'[1]
                /\ SubSeq(stack', 1, Len(stack)) = stack
          /\ nPop' = nPop + 1 =>
                /\ Len(stack) > 0
                /\ popped' = <<stack[Len(stack)]>>
                /\ stack' = SubSeq(stack, 1, Len(stack) - 1)]_vars

C9_Witness ==
    /\ nPush = 3 /\ nPop = 2
    /\ stack = <<0>>
    /\ popped = <<0>>

\* C10: the assertion in pop never fails: after a pop that leaves the stack
\* non-empty the popped value equals the new top, and after a pop that
\* empties it the popped value is non-zero.
C10_PopAssertionHolds == ~assertion_error

====
